---- MODULE Spec2Model ----
(***************************************************************************)
(* OpenClawPyLite: the BrowserManager session (src/browser.py) and the     *)
(* Agent's analyze_and_act loop with its bounded history (src/agent.py).   *)
(*                                                                         *)
(* A handle (playwright, browser, context, page) is TRUE when it holds an  *)
(* object and FALSE when it is None.  Every awaited call into Playwright   *)
(* or into the Gemini client is an external operation that either returns  *)
(* or raises an Exception; which of the two is chosen by the environment.  *)
(* JSON values are abstracted to the classes the code distinguishes        *)
(* (truthiness, having a length, the length, being a str).                 *)
(***************************************************************************)
EXTENDS Integers, Sequences, FiniteSets, TLC

\* ----------------------------------------------------------------- bounds
MaxBatch == 2            \* longest action array a model response holds
MaxInvocations == 2      \* analyze_and_act calls in a run of Spec
MaxHistInvocations == 7  \* analyze_and_act calls in a run of HistSpec

\* -------------------------------------------------------- program constants
MaxHistory == 5          \* agent.py:187  len(self.history) > 5

\* ------------------------------------------------------------ BrowserManager

\* BrowserManager.__init__
BrowserInit ==
  [playwright |-> FALSE, browser |-> FALSE, context |-> FALSE, page |-> FALSE]

\* What start() may be told by the environment: 0 = every awaited step
\* returns, i = the i-th awaited step (async_playwright().start(), launch,
\* new_context, new_page) raises.
StartFaults == 0..4

\* What stop() may be told: 0 = every close returns, 1 = context.close()
\* raises, 2 = browser.close() raises, 3 = playwright.stop() raises.
StopFaults == 0..3

\* The result of one BrowserManager method: the manager afterwards, the
\* returned value ("" for None), whether the call raised, and the page
\* operations it attempted.
Res(b, ret, raised, ops) ==
  [bm |-> b, ret |-> ret, raised |-> raised, ops |-> ops]

\* BrowserManager.start
start(b, fail) ==
  IF b.playwright THEN Res(b, "", FALSE, <<>>)
  ELSE IF fail = 1 THEN Res(b, "", TRUE, <<>>)
  ELSE IF fail = 2 THEN Res([b EXCEPT !.playwright = TRUE], "", TRUE, <<>>)
  ELSE IF fail = 3
    THEN Res([b EXCEPT !.playwright = TRUE, !.browser = TRUE], "", TRUE, <<>>)
  ELSE IF fail = 4
    THEN Res([b EXCEPT !.playwright = TRUE, !.browser = TRUE,
                       !.context = TRUE], "", TRUE, <<>>)
  ELSE Res([playwright |-> TRUE, browser |-> TRUE, context |-> TRUE,
            page |-> TRUE], "", FALSE, <<>>)

\* BrowserManager.stop: the three closes run in order, each only when its
\* handle is set; the four fields are reset after them, so a close that
\* raises leaves every field as it was.
stop(b, fail) ==
  IF \/ (fail = 1 /\ b.context)
     \/ (fail = 2 /\ b.browser)
     \/ (fail = 3 /\ b.playwright)
    THEN Res(b, "", TRUE, <<>>)
    ELSE Res(BrowserInit, "", FALSE, <<>>)

\* BrowserManager.navigate: start() runs outside the try, so its fault
\* propagates; page.goto runs inside it, and with page still None the
\* AttributeError of None.goto is caught like any fault of goto.
navigate(b, url, sfail, f) ==
  LET s == IF ~b.page THEN start(b, sfail) ELSE Res(b, "", FALSE, <<>>)
  IN  IF s.raised THEN Res(s.bm, "", TRUE, <<>>)
      ELSE IF ~s.bm.page THEN Res(s.bm, "Error navigating", FALSE, <<>>)
      ELSE IF f THEN Res(s.bm, "Error navigating", FALSE, <<"goto">>)
      ELSE Res(s.bm, "Navigated to", FALSE, <<"goto">>)

\* click without its `if not self.page` guard: None.mouse raises
click_unguarded(b, x, y, f) ==
  IF ~b.page \/ f THEN Res(b, "", TRUE, <<"mouse.click">>)
  ELSE Res(b, "Clicked at", FALSE, <<"mouse.click">>)

\* BrowserManager.click
click(b, x, y, f) ==
  IF ~b.page THEN Res(b, "Browser not active", FALSE, <<>>)
  ELSE IF f THEN Res(b, "", TRUE, <<"mouse.click">>)
  ELSE Res(b, "Clicked at", FALSE, <<"mouse.click">>)

\* BrowserManager.type_text
type_text(b, text, f) ==
  IF ~b.page THEN Res(b, "Browser not active", FALSE, <<>>)
  ELSE IF f THEN Res(b, "", TRUE, <<"keyboard.type">>)
  ELSE Res(b, "Typed", FALSE, <<"keyboard.type">>)

\* BrowserManager.press_key
press_key(b, key, f) ==
  IF ~b.page THEN Res(b, "Browser not active", FALSE, <<>>)
  ELSE IF f THEN Res(b, "", TRUE, <<"keyboard.press">>)
  ELSE Res(b, "Pressed key", FALSE, <<"keyboard.press">>)

\* BrowserManager.get_text_content: inner_text runs inside a try
get_text_content(b, f) ==
  IF ~b.page THEN Res(b, "Browser not active", FALSE, <<>>)
  ELSE IF f THEN Res(b, "Error extracting text", FALSE, <<"inner_text">>)
  ELSE Res(b, "body text", FALSE, <<"inner_text">>)

\* BrowserManager.scroll
scroll(b, direction, f) ==
  IF ~b.page THEN Res(b, "Browser not active", FALSE, <<>>)
  ELSE IF direction = "down"
    THEN IF f THEN Res(b, "", TRUE, <<"evaluate">>)
              ELSE Res(b, "Scrolled down", FALSE, <<"evaluate">>)
  ELSE IF direction = "up"
    THEN IF f THEN Res(b, "", TRUE, <<"evaluate">>)
              ELSE Res(b, "Scrolled up", FALSE, <<"evaluate">>)
  ELSE Res(b, "Invalid scroll direction", FALSE, <<>>)

\* ------------------------------------------------------------- JSON values
\* The classes of JSON value a field of an action object may hold, as far
\* as the code tells them apart.  "absent" is a missing key; dict.get gives
\* None for it, so a null behaves as a missing key does, and a string of two
\* characters behaves as an array of two strings does ("arr2str").
CoordValues == {"absent", "num", "arr1", "arr2num", "arr2str"}
TextValues == {"absent", "null", "str"}
KeyValues == {"str"}
DirValues == {"absent", "sideways"}

\* bool(v) in Python
Truthy(v) == v \notin {"absent", "null"}
\* whether len(v) is defined (str, list); len of a number raises TypeError
Sized(v) == v \in {"arr1", "arr2num", "arr2str", "str"}
\* len(v)
PyLen(v) == IF v \in {"arr2num", "arr2str"} THEN 2 ELSE 1
\* isinstance(v, str)
IsStr(v) == v \notin {"absent", "null", "num", "arr1", "arr2num", "arr2str"}
\* two numeric values, the payload the click action is specified to carry
TwoNumbers(v) == v = "arr2num"

\* dict.get(key): None for a missing key
Get(a, f) == IF a[f] = "absent" THEN "null" ELSE a[f]
\* dict.get(key, default): the default only for a missing key
GetDefault(a, f, d) == IF a[f] = "absent" THEN d ELSE a[f]

\* One element of the response array.  obj = FALSE is an element that is
\* not a JSON object (it has no .get).
Elem(action, coordinates, text, key, direction) ==
  [obj |-> TRUE, action |-> action, coordinates |-> coordinates,
   text |-> text, key |-> key, direction |-> direction]
NonObject ==
  [obj |-> FALSE, action |-> "absent", coordinates |-> "absent",
   text |-> "absent", key |-> "absent", direction |-> "absent"]

Elements ==
  {NonObject}
  \cup {Elem("click", c, "absent", "absent", "absent") : c \in CoordValues}
  \cup {Elem("type", "absent", t, "absent", "absent") :
          t \in {"absent", "str"}}
  \cup {Elem("key", "absent", "absent", k, "absent") : k \in KeyValues}
  \cup {Elem("scroll", "absent", "absent", "absent", d) : d \in DirValues}
  \cup {Elem("navigate", "absent", t, "absent", "absent") : t \in {"str"}}
  \cup {Elem(act, "absent", "absent", "absent", "absent") :
          act \in {"read", "done", "absent"}}
  \cup {Elem("answer", "absent", t, "absent", "absent") : t \in TextValues}

\* The elements of the longest arrays: one more than MaxBatch, over the
\* actions of a plan that navigates, reads, types and ends.
CoreElements ==
  {Elem("navigate", "absent", "str", "absent", "absent"),
   Elem("read", "absent", "absent", "absent", "absent"),
   Elem("type", "absent", "str", "absent", "absent"),
   Elem("answer", "absent", "str", "absent", "absent"),
   Elem("done", "absent", "absent", "absent", "absent")}

SeqsUpTo(S, n) == UNION {[1..m -> S] : m \in 0..n}

\* What generate_content hands back: a fault, a response without text, text
\* that is not JSON, JSON that is a scalar, one action object, or an array.
Resp(kind, batch, raw) == [kind |-> kind, batch |-> batch, raw |-> raw]
RawTexts == {"{not json", "[1,"}
Responses ==
  {Resp("fault", <<>>, ""), Resp("notext", <<>>, ""), Resp("scalar", <<>>, "")}
  \cup {Resp("malformed", <<>>, r) : r \in RawTexts}
  \cup {Resp("object", <<e>>, "") : e \in Elements \ {NonObject}}
  \cup {Resp("array", s, "") : s \in SeqsUpTo(Elements, MaxBatch)}
  \cup {Resp("array", s, "") : s \in [1..(MaxBatch + 1) -> CoreElements]}

\* The responses of HistSpec: enough to make an invocation succeed (with and
\* without a terminal action) or fail in each way.
HistResponses ==
  {Resp("fault", <<>>, ""), Resp("scalar", <<>>, ""),
   Resp("malformed", <<>>, "{not json"),
   Resp("object", <<Elem("done", "absent", "absent", "absent", "absent")>>, ""),
   Resp("array", <<Elem("read", "absent", "absent", "absent", "absent")>>, ""),
   Resp("array", <<NonObject>>, "")}

\* ------------------------------------------------------------------- Agent

\* One call of a BrowserManager method: the method, the batch element it
\* was issued for (0: called by the agent's caller), its argument, the
\* manager before and after it, what it returned, whether it raised, and the
\* page operations it attempted.
CallRec(op, i, arg, b, r) ==
  [op |-> op, elem |-> i, arg |-> arg, pre |-> b, post |-> r.bm,
   ret |-> r.ret, raised |-> r.raised, ops |-> r.ops]

\* step_msg: the log line of element i.  kind "step" is the line that opens
\* "Action: ..."; text is what was added to it, or the line itself.
Line(i, kind, text) == [elem |-> i, kind |-> kind, text |-> text]

\* What one iteration of the loop does: the manager afterwards, the browser
\* calls issued, whether a fault was raised, whether the loop was left by
\* break, is_done, and the lines appended to total_result_msg.
Out(b, cs, raised, halt, done, lines) ==
  [bm |-> b, calls |-> cs, raised |-> raised, halt |-> halt, done |-> done,
   lines |-> lines]

\* coords[i]
Item(coords, i) == <<coords, i>>

\* `coords and len(coords) == 2`: "click", "invalid", or "raise" when len()
\* is applied to a value that has none
CoordsCheck(coords) ==
  IF ~Truthy(coords) THEN "invalid"
  ELSE IF ~Sized(coords) THEN "raise"
  ELSE IF PyLen(coords) = 2 THEN "click"
  ELSE "invalid"

\* action == "click"
ExecClick(b, i, a, f1) ==
  LET coords == Get(a, "coordinates")
      chk == CoordsCheck(coords)
  IN  IF chk = "raise" THEN Out(b, <<>>, TRUE, FALSE, FALSE, <<>>)
      ELSE IF chk = "click"
        THEN LET r == click(b, Item(coords, 0), Item(coords, 1), f1)
             IN  Out(r.bm, <<CallRec("click", i, coords, b, r)>>, r.raised,
                     FALSE, FALSE, <<Line(i, "step", "Clicked at")>>)
      ELSE Out(b, <<>>, FALSE, FALSE, FALSE,
               <<Line(i, "error", "Invalid coordinates for click.")>>)

\* the type branch without the press_key("Enter") after type_text
ExecType_no_enter(b, i, a, f1, f2) ==
  LET text == Get(a, "text")
  IN  IF Truthy(text)
        THEN LET r1 == type_text(b, text, f1)
             IN  Out(r1.bm, <<CallRec("type_text", i, text, b, r1)>>,
                     r1.raised, FALSE, FALSE, <<Line(i, "step", "Typed")>>)
        ELSE Out(b, <<>>, FALSE, FALSE, FALSE, <<Line(i, "step", "")>>)

\* action == "type"
ExecType(b, i, a, f1, f2) ==
  LET text == Get(a, "text")
  IN  IF Truthy(text)
        THEN LET r1 == type_text(b, text, f1)
                 c1 == CallRec("type_text", i, text, b, r1)
             IN  IF r1.raised
                   THEN Out(r1.bm, <<c1>>, TRUE, FALSE, FALSE, <<>>)
                   ELSE LET r2 == press_key(r1.bm, "Enter", f2)
                            c2 == CallRec("press_key", i, "Enter", r1.bm, r2)
                        IN  Out(r2.bm, <<c1, c2>>, r2.raised, FALSE, FALSE,
                                <<Line(i, "step", "Typed, auto-pressed Enter")>>)
        ELSE Out(b, <<>>, FALSE, FALSE, FALSE, <<Line(i, "step", "")>>)

\* action == "key"
ExecKey(b, i, a, f1) ==
  LET key == Get(a, "key")
  IN  IF Truthy(key)
        THEN LET r == press_key(b, key, f1)
             IN  Out(r.bm, <<CallRec("press_key", i, key, b, r)>>, r.raised,
                     FALSE, FALSE, <<Line(i, "step", "Pressed")>>)
        ELSE Out(b, <<>>, FALSE, FALSE, FALSE, <<Line(i, "step", "")>>)

\* action == "scroll"
ExecScroll(b, i, a, f1) ==
  LET direction == GetDefault(a, "direction", "down")
      r == scroll(b, direction, f1)
  IN  Out(r.bm, <<CallRec("scroll", i, direction, b, r)>>, r.raised,
          FALSE, FALSE, <<Line(i, "step", "Scrolled")>>)

\* action == "navigate"
ExecNavigate(b, i, a, sf, f1) ==
  LET url == Get(a, "text")
  IN  IF Truthy(url)
        THEN LET r == navigate(b, url, sf, f1)
             IN  Out(r.bm, <<CallRec("navigate", i, url, b, r)>>, r.raised,
                     FALSE, FALSE, <<Line(i, "step", "Navigated to")>>)
        ELSE Out(b, <<>>, FALSE, FALSE, FALSE, <<Line(i, "step", "")>>)

\* action == "read"
ExecRead(b, i, a, f1) ==
  LET r == get_text_content(b, f1)
  IN  Out(r.bm, <<CallRec("get_text_content", i, "", b, r)>>, r.raised,
          FALSE, FALSE, <<Line(i, "step", "Extracted Text")>>)

\* the answer branch without its break
ExecAnswer_no_break(b, i, a) ==
  Out(b, <<>>, FALSE, FALSE, TRUE,
      <<Line(i, "answer", GetDefault(a, "text", "No answer provided."))>>)

\* action == "answer": the line is the text field as it is, a str or not
ExecAnswer(b, i, a) ==
  Out(b, <<>>, FALSE, TRUE, TRUE,
      <<Line(i, "answer", GetDefault(a, "text", "No answer provided."))>>)

\* action == "done"
ExecDone(b, i, a) ==
  Out(b, <<>>, FALSE, TRUE, TRUE, <<Line(i, "done", "Task completed.")>>)

\* The body of `for action_data in actions_data` for element i.  sf, f1 and
\* f2 are the environment's choices: how start() fares, and whether the
\* first and the second page operation raise.
ExecElement(b, i, a, sf, f1, f2) ==
  IF ~a.obj THEN Out(b, <<>>, TRUE, FALSE, FALSE, <<>>)
  ELSE IF a.action = "click" THEN ExecClick(b, i, a, f1)
  ELSE IF a.action = "type" THEN ExecType(b, i, a, f1, f2)
  ELSE IF a.action = "key" THEN ExecKey(b, i, a, f1)
  ELSE IF a.action = "scroll" THEN ExecScroll(b, i, a, f1)
  ELSE IF a.action = "navigate" THEN ExecNavigate(b, i, a, sf, f1)
  ELSE IF a.action = "read" THEN ExecRead(b, i, a, f1)
  ELSE IF a.action = "answer" THEN ExecAnswer(b, i, a)
  ELSE IF a.action = "done" THEN ExecDone(b, i, a)
  ELSE Out(b, <<>>, FALSE, FALSE, FALSE, <<Line(i, "step", "")>>)

\* The environment's choices that element a can meet: navigate may start
\* the browser and does one page operation, type does two, click, key,
\* scroll and read do one, the others none.
FaultChoices(a) ==
  IF a.obj /\ a.action = "navigate"
    THEN {[sf |-> sf, f1 |-> f1, f2 |-> FALSE] :
            sf \in StartFaults, f1 \in BOOLEAN}
  ELSE IF a.obj /\ a.action = "type"
    THEN {[sf |-> 0, f1 |-> f1, f2 |-> f2] : f1 \in BOOLEAN, f2 \in BOOLEAN}
  ELSE IF a.obj /\ a.action \in {"click", "key", "scroll", "read"}
    THEN {[sf |-> 0, f1 |-> f1, f2 |-> FALSE] : f1 \in BOOLEAN}
  ELSE {[sf |-> 0, f1 |-> FALSE, f2 |-> FALSE]}

\* The returned string.  A summary is the lines "\n".join puts together.
Result(kind, lines, text) == [kind |-> kind, lines |-> lines, text |-> text]
ErrNoScreenshot == Result("Error: No browser screenshot available", <<>>, "")
ErrGemini == Result("Error communicating with Gemini", <<>>, "")
ErrInvalidJson(raw) == Result("Error: Gemini returned invalid JSON", <<>>, raw)
ErrNotAction ==
  Result("Error: Gemini did not return a valid action array or object",
         <<>>, "")
Summary(lines) == Result("summary", lines, "")

\* (status_string, is_done_boolean)
\* raised: the call did not return the pair but let a fault through
Ret(result, done) == [result |-> result, is_done |-> done, raised |-> FALSE]
NoRet == Ret(Result("none", <<>>, ""), FALSE)

\* an except clause that lets the fault through
Except_reraise == [result |-> ErrGemini, is_done |-> FALSE, raised |-> TRUE]

\* except Exception as e
Except == Ret(ErrGemini, FALSE)

\* a parse that takes any text for a batch: no JSONDecodeError return, no
\* isinstance check
ParseResponse_lenient(resp) ==
  IF resp.kind \in {"fault", "notext"} THEN [kind |-> "raise", batch |-> <<>>]
  ELSE [kind |-> "batch", batch |-> resp.batch]

\* generate_content, response.text, json.loads and the isinstance checks:
\* "raise" (a fault of the call, or json.loads(None)), "invalid_json",
\* "not_action", or the batch, a single object made a one-element list.
ParseResponse(resp) ==
  IF resp.kind \in {"fault", "notext"} THEN [kind |-> "raise", batch |-> <<>>]
  ELSE IF resp.kind = "malformed"
    THEN [kind |-> "invalid_json", batch |-> <<>>]
  ELSE IF resp.kind = "object" THEN [kind |-> "batch", batch |-> resp.batch]
  ELSE IF resp.kind = "array" THEN [kind |-> "batch", batch |-> resp.batch]
  ELSE [kind |-> "not_action", batch |-> <<>>]

\* "\n".join(total_result_msg) raises TypeError on an item that is no str
JoinRaises(lines) == \E j \in 1..Len(lines) : ~IsStr(lines[j].text)

\* a terminal action's line replacing the log instead of joining it
AppendLines_replace(total, out) ==
  IF out.halt THEN out.lines ELSE total \o out.lines

\* total_result_msg.append(step_msg)
AppendLines(total, out) == total \o out.lines

\* eviction by pop() (the newest entry) instead of pop(0)
SaveHistory_pop_last(h, entry) ==
  LET h1 == Append(h, entry)
  IN  IF Len(h1) > MaxHistory THEN SubSeq(h1, 1, Len(h1) - 1) ELSE h1

\* self.history.append(...); if len(self.history) > 5: self.history.pop(0)
SaveHistory(h, entry) ==
  LET h1 == Append(h, entry)
  IN  IF Len(h1) > MaxHistory THEN Tail(h1) ELSE h1

\* ------------------------------------------------------------------- state

VARIABLES
  history,            \* Agent.history: the user_instruction of each entry
  bm,                 \* the BrowserManager the agent and its caller share
  pc,                 \* "idle", where analyze_and_act stands ("model",
                      \* "loop", "join"), or "returned"
  actions_data,       \* the batch being executed
  idx,                \* the element the for loop is at
  total_result_msg,   \* the log lines so far
  is_done,
  ret,                \* what the latest analyze_and_act returned
  nInv,               \* analyze_and_act calls so far; the n-th call's
                      \* user_instruction is n
  calls,              \* the browser calls the latest analyze_and_act issued
  last,               \* the latest BrowserManager call
  inv,                \* the latest analyze_and_act: its inputs, the fault
                      \* raised in it, the terminal element it reached
  hist0,              \* history as the latest analyze_and_act found it
  succeeded           \* the calls that reached the history append, in order

vars ==
  <<history, bm, pc, actions_data, idx, total_result_msg, is_done, ret, nInv,
    calls, last, inv, hist0, succeeded>>

NoResp == Resp("none", <<>>, "")
NoCall == CallRec("none", 0, "", BrowserInit, Res(BrowserInit, "", FALSE, <<>>))
Inv(shot, resp, fault, reached) ==
  [shot |-> shot, resp |-> resp, fault |-> fault, reached |-> reached]

\* A history entry (user_instruction, json.dumps(actions_data),
\* final_result): the batch and the result are those of the call the
\* instruction names, so the entry is kept as the instruction.
Entry(instruction) == instruction

\* Agent.__init__ with a fresh BrowserManager
Init ==
  /\ history = <<>>
  /\ bm = BrowserInit
  /\ pc = "idle"
  /\ actions_data = <<>>
  /\ idx = 1
  /\ total_result_msg = <<>>
  /\ is_done = FALSE
  /\ ret = NoRet
  /\ nInv = 0
  /\ calls = <<>>
  /\ last = NoCall
  /\ inv = Inv(FALSE, NoResp, "none", 0)
  /\ hist0 = <<>>
  /\ succeeded = <<>>

\* analyze_and_act is entered: the screenshot check, and with a screenshot
\* the request to the model.
Call(maxInv) ==
  /\ pc = "idle"
  /\ nInv < maxInv
  /\ nInv' = nInv + 1
  /\ hist0' = history
  /\ calls' = <<>>
  /\ last' = NoCall
  /\ total_result_msg' = <<>>
  /\ is_done' = FALSE
  /\ idx' = 1
  /\ actions_data' = <<>>
  /\ \E shot \in BOOLEAN :
       IF ~shot
         THEN /\ ret' = Ret(ErrNoScreenshot, TRUE)
              /\ inv' = Inv(FALSE, NoResp, "none", 0)
              /\ pc' = "returned"
         ELSE /\ ret' = NoRet
              /\ inv' = Inv(TRUE, NoResp, "none", 0)
              /\ pc' = "model"
  /\ UNCHANGED <<history, bm, succeeded>>

\* generate_content answers (or raises) and the response is parsed, up to
\* the for loop.
Respond(responses) ==
  /\ pc = "model"
  /\ \E resp \in responses :
       LET p == ParseResponse(resp)
       IN  /\ inv' = [inv EXCEPT !.resp = resp,
                                 !.fault = IF p.kind = "raise" THEN "model"
                                           ELSE "none"]
           /\ IF p.kind = "raise"
                THEN /\ ret' = Except
                     /\ pc' = "returned"
                     /\ actions_data' = <<>>
              ELSE IF p.kind = "invalid_json"
                THEN /\ ret' = Ret(ErrInvalidJson(resp.raw), FALSE)
                     /\ pc' = "returned"
                     /\ actions_data' = <<>>
              ELSE IF p.kind = "not_action"
                THEN /\ ret' = Ret(ErrNotAction, FALSE)
                     /\ pc' = "returned"
                     /\ actions_data' = <<>>
              ELSE /\ ret' = NoRet
                   /\ pc' = "loop"
                   /\ actions_data' = p.batch
  /\ UNCHANGED <<history, bm, idx, total_result_msg, is_done, nInv, calls,
                 last, hist0, succeeded>>

\* One iteration of the for loop; a fault in it lands in the except clause.
Step ==
  /\ pc = "loop"
  /\ idx <= Len(actions_data)
  /\ \E ch \in FaultChoices(actions_data[idx]) :
       LET out == ExecElement(bm, idx, actions_data[idx], ch.sf, ch.f1, ch.f2)
       IN  /\ bm' = out.bm
           /\ calls' = calls \o out.calls
           /\ last' = IF out.calls = <<>> THEN last
                      ELSE out.calls[Len(out.calls)]
           /\ IF out.raised
                THEN /\ ret' = Except
                     /\ pc' = "returned"
                     /\ inv' = [inv EXCEPT !.fault =
                                  IF out.calls = <<>> THEN "element"
                                  ELSE "browser"]
                     /\ UNCHANGED <<total_result_msg, is_done, idx>>
                ELSE /\ total_result_msg' = AppendLines(total_result_msg, out)
                     /\ is_done' = (is_done \/ out.done)
                     /\ inv' = [inv EXCEPT !.reached =
                                  IF out.done /\ @ = 0 THEN idx ELSE @]
                     /\ pc' = IF out.halt THEN "join" ELSE "loop"
                     /\ idx' = idx + 1
                     /\ ret' = ret
  /\ UNCHANGED <<history, actions_data, nInv, hist0, succeeded>>

\* After the loop: the join, the history append with its eviction, the
\* return.
Finish ==
  /\ \/ pc = "join"
     \/ pc = "loop" /\ idx > Len(actions_data)
  /\ pc' = "returned"
  /\ IF JoinRaises(total_result_msg)
       THEN /\ ret' = Except
            /\ inv' = [inv EXCEPT !.fault = "join"]
            /\ UNCHANGED <<history, succeeded>>
       ELSE /\ ret' = Ret(Summary(total_result_msg), is_done)
            /\ history' = SaveHistory(history, Entry(nInv))
            /\ succeeded' = Append(succeeded, nInv)
            /\ inv' = inv
  /\ UNCHANGED <<bm, actions_data, idx, total_result_msg, is_done, nInv,
                 calls, last, hist0>>

\* The caller takes the returned pair and goes on: the call's locals, and
\* the record kept of the call, are gone.
Resume ==
  /\ pc = "returned"
  /\ pc' = "idle"
  /\ actions_data' = <<>>
  /\ idx' = 1
  /\ total_result_msg' = <<>>
  /\ is_done' = FALSE
  /\ ret' = NoRet
  /\ calls' = <<>>
  /\ last' = NoCall
  /\ inv' = Inv(FALSE, NoResp, "none", 0)
  /\ hist0' = <<>>
  /\ UNCHANGED <<history, bm, nInv, succeeded>>

\* A BrowserManager method called by the agent's caller, between two
\* analyze_and_act calls.
Direct(op, arg, r) ==
  /\ pc = "idle"
  /\ bm' = r.bm
  /\ last' = CallRec(op, 0, arg, bm, r)
  /\ UNCHANGED <<history, pc, actions_data, idx, total_result_msg, is_done,
                 ret, nInv, calls, inv, hist0, succeeded>>

Start == \E sf \in StartFaults : Direct("start", "", start(bm, sf))
Stop == \E f \in StopFaults : Direct("stop", "", stop(bm, f))
Navigate ==
  \E sf \in StartFaults, f \in BOOLEAN :
    Direct("navigate", "str", navigate(bm, "str", sf, f))
Click ==
  \E f \in BOOLEAN :
    Direct("click", "arr2num",
           click(bm, Item("arr2num", 0), Item("arr2num", 1), f))
TypeText == \E f \in BOOLEAN : Direct("type_text", "str", type_text(bm, "str", f))
PressKey == \E f \in BOOLEAN : Direct("press_key", "str", press_key(bm, "str", f))
Scroll ==
  \E d \in {"down", "up", "sideways"}, f \in BOOLEAN :
    Direct("scroll", d, scroll(bm, d, f))
GetTextContent ==
  \E f \in BOOLEAN : Direct("get_text_content", "", get_text_content(bm, f))

Next ==
  \/ Call(MaxInvocations)
  \/ Respond(Responses)
  \/ Step
  \/ Finish
  \/ Resume
  \/ Start
  \/ Stop
  \/ Navigate
  \/ Click
  \/ TypeText
  \/ PressKey
  \/ Scroll
  \/ GetTextContent

Spec == Init /\ [][Next]_vars

\* The agent alone, over many invocations: the history's bound and order.
HistNext ==
  \/ Call(MaxHistInvocations)
  \/ Respond(HistResponses)
  \/ Step
  \/ Finish
  \/ Resume

HistSpec == Init /\ [][HistNext]_vars

\* ------------------------------------------------------------------ claims

Returned == pc = "returned"

\* an element tagged `answer` or `done`
IsTerminal(a) == a.obj /\ a.action \in {"answer", "done"}

\* the index of the first terminal element of a batch, 0 when it has none
FirstTerminal(s) ==
  IF \E k \in 1..Len(s) : IsTerminal(s[k])
    THEN CHOOSE k \in 1..Len(s) :
           IsTerminal(s[k]) /\ \A j \in 1..(k - 1) : ~IsTerminal(s[j])
    ELSE 0

\* the browser calls are in the order of the elements they were issued for
InArrayOrder ==
  \A i \in 1..Len(calls), j \in 1..Len(calls) :
    i < j => calls[i].elem <= calls[j].elem

\* C1 as stated: in a batch whose first terminal element is the k-th,
\* browser operations are issued only for elements 1..k-1, in array order,
\* none for k+1..N, and the invocation returns is_done = true.
C1_Claim ==
  LET k == FirstTerminal(actions_data)
  IN  k > 0 =>
        /\ \A j \in 1..Len(calls) : calls[j].elem < k
        /\ InArrayOrder
        /\ (Returned => ret.is_done)

\* C1 amended: browser operations are issued only for elements 1..k-1, in
\* array order, none for k..N; the invocation returns is_done = true unless
\* a fault is raised in it, and then it returns the error of the except
\* clause with is_done = false, the call that raised being the last issued.
C1_TerminalHalts ==
  LET k == FirstTerminal(actions_data)
  IN  k > 0 =>
        /\ \A j \in 1..Len(calls) : calls[j].elem < k
        /\ InArrayOrder
        /\ \A j \in 1..(Len(calls) - 1) : ~calls[j].raised
        /\ (Returned =>
              /\ ret.is_done = (inv.fault = "none")
              /\ (inv.fault # "none" => ret = Ret(ErrGemini, FALSE)))

\* C1's case: a batch of three whose second element is terminal has run:
\* one browser call for the first element, none after, is_done = true.
C1_Witness ==
  /\ Returned
  /\ Len(actions_data) = 3
  /\ FirstTerminal(actions_data) = 2
  /\ actions_data[3].action \in {"navigate", "read", "type"}
  /\ Len(calls) = 1
  /\ calls[1].elem = 1
  /\ ret.is_done

\* the last n items of a sequence
LastN(s, n) == IF Len(s) <= n THEN s ELSE SubSeq(s, Len(s) - n + 1, Len(s))

\* C2: the history holds at most 5 entries and is, in order, the entries of
\* the latest 5 invocations that succeeded (all of them while fewer than 6
\* have): the oldest leaves first.
C2_HistoryFifo ==
  /\ Len(history) <= 5
  /\ history = [j \in 1..Len(LastN(succeeded, 5)) |->
                  Entry(LastN(succeeded, 5)[j])]

\* C2's case: six invocations have succeeded, with failing ones among the
\* calls; the first success's entry is gone and those of 2..6 are there.
C2_Witness ==
  /\ Len(succeeded) = 6
  /\ nInv > 6
  /\ succeeded[1] # 1
  /\ \A j \in 1..Len(history) : history[j] # Entry(succeeded[1])
  /\ history = [j \in 1..5 |-> Entry(succeeded[j + 1])]

IsError(result) ==
  result.kind \in {"Error: Gemini returned invalid JSON",
                   "Error: Gemini did not return a valid action array or object",
                   "Error communicating with Gemini",
                   "Error: No browser screenshot available"}

\* C3: a response that is malformed JSON, or JSON that is neither an object
\* nor an array, gives an error result with is_done = false, no browser
\* operation and the history as it was; for malformed JSON the result
\* carries the raw response text.
C3_BadResponse ==
  (Returned /\ inv.shot /\ inv.resp.kind \in {"malformed", "scalar"}) =>
     /\ IsError(ret.result)
     /\ ~ret.is_done
     /\ ~ret.raised
     /\ calls = <<>>
     /\ history = hist0
     /\ (inv.resp.kind = "malformed" =>
           /\ ret.result.kind = "Error: Gemini returned invalid JSON"
           /\ ret.result.text = inv.resp.raw)

\* C3's case: a malformed response has been answered, on a history that
\* is not empty.
C3_Witness ==
  /\ Returned
  /\ inv.shot
  /\ inv.resp.kind = "malformed"
  /\ inv.resp.raw = "[1,"
  /\ ret.result.text = "[1,"
  /\ hist0 # <<>>

\* element i of the batch has been executed (to its end, or to a fault)
Executed(i) ==
  \/ idx > i
  \/ Returned /\ inv.fault \in {"element", "browser"} /\ idx = i

\* the fault of the invocation was raised while executing element i
FaultedAt(i) ==
  Returned /\ inv.fault \in {"element", "browser"} /\ idx = i

\* C4 as stated: for a click element whose coordinates are not two numbers,
\* the browser's click is not called, the element's log line is the
\* invalid-coordinates error, and execution goes on to the next element.
C4_Claim ==
  \A i \in 1..Len(actions_data) :
    LET a == actions_data[i]
    IN  (a.obj /\ a.action = "click" /\ ~TwoNumbers(a.coordinates)
         /\ Executed(i)) =>
          /\ \A j \in 1..Len(calls) :
               ~(calls[j].op = "click" /\ calls[j].elem = i)
          /\ ~FaultedAt(i)
          /\ \E j \in 1..Len(total_result_msg) :
               total_result_msg[j] =
                 Line(i, "error", "Invalid coordinates for click.")

\* C5 as stated: every type_text call is immediately followed by a
\* press_key("Enter") call; the batch cannot end between the two.
C5_Claim ==
  \A j \in 1..Len(calls) :
    calls[j].op = "type_text" =>
      /\ j < Len(calls)
      /\ calls[j + 1].op = "press_key"
      /\ calls[j + 1].arg = "Enter"

\* C5 amended: every type_text call that returns is immediately followed by
\* a press_key("Enter") call for the same element; a type_text call that
\* raises is the last browser call of the invocation, which returns the
\* error of the except clause with is_done = false.
C5_TypeThenEnter ==
  \A j \in 1..Len(calls) :
    calls[j].op = "type_text" =>
      IF calls[j].raised
        THEN /\ j = Len(calls)
             /\ Returned
             /\ ret = Ret(ErrGemini, FALSE)
        ELSE /\ j < Len(calls)
             /\ calls[j + 1].op = "press_key"
             /\ calls[j + 1].arg = "Enter"
             /\ calls[j + 1].elem = calls[j].elem

\* C5's case: text was typed into an active page and Enter pressed, and
\* the batch went on to a further browser call.
C5_Witness ==
  /\ Returned
  /\ Len(calls) = 3
  /\ calls[1].op = "type_text"
  /\ calls[1].ops = <<"keyboard.type">>
  /\ calls[2].op = "press_key"
  /\ calls[2].ops = <<"keyboard.press">>
  /\ calls[3].elem = 2

\* C6 as stated: when the k-th element is the first terminal one, the
\* returned summary holds the log line of element k only.
C6_Claim ==
  LET k == FirstTerminal(actions_data)
  IN  (Returned /\ k > 0 /\ ret.result.kind = "summary") =>
        /\ Len(ret.result.lines) = 1
        /\ ret.result.lines[1].elem = k

\* C6 amended: the returned summary holds the log lines of elements 1..k in
\* array order: those of 1..k-1, then, last, the line of element k (the
\* answer text or "Task completed.").
C6_SummaryLines ==
  LET k == FirstTerminal(actions_data)
      lines == ret.result.lines
  IN  (Returned /\ k > 0 /\ ret.result.kind = "summary") =>
        /\ Len(lines) = k
        /\ \A j \in 1..k : lines[j].elem = j
        /\ \A j \in 1..(k - 1) : lines[j].kind \in {"step", "error"}
        /\ lines[k] =
             IF actions_data[k].action = "done"
               THEN Line(k, "done", "Task completed.")
               ELSE Line(k, "answer",
                         GetDefault(actions_data[k], "text",
                                    "No answer provided."))

\* C6's case: a summary was returned for a batch whose third element is the
\* first terminal one.
C6_Witness ==
  /\ Returned
  /\ FirstTerminal(actions_data) = 3
  /\ ret.result.kind = "summary"
  /\ ret.is_done
  /\ Len(ret.result.lines) = 3

\* C7: a fault raised in an invocation is not propagated: the invocation
\* returns an error string with is_done = false and leaves the history as it
\* was; the history differs from what the invocation found only once the
\* batch has run to its end or to a terminal action.
C7_FaultContained ==
  /\ pc \in {"model", "loop", "join"} => history = hist0
  /\ Returned =>
       /\ ~ret.raised
       /\ (inv.fault # "none" =>
             /\ IsError(ret.result)
             /\ ~ret.is_done
             /\ history = hist0)
       /\ (history # hist0 =>
             /\ inv.fault = "none"
             /\ inv.shot
             /\ (idx > Len(actions_data) \/ inv.reached > 0))

\* C7's case: a page operation raised in the middle of a batch, on a
\* history that is not empty.
C7_Witness ==
  /\ Returned
  /\ inv.fault = "browser"
  /\ calls # <<>>
  /\ calls[Len(calls)].ops # <<>>
  /\ calls[Len(calls)].elem = 2
  /\ hist0 # <<>>
  /\ history = hist0

\* every BrowserManager call on record
Recorded == {last} \cup {calls[j] : j \in 1..Len(calls)}

PageOps ==
  {"navigate", "click", "type_text", "press_key", "scroll", "get_text_content"}

NotActive(c) ==
  /\ c.ret = "Browser not active"
  /\ ~c.raised
  /\ c.ops = <<>>
  /\ c.post = c.pre

\* C8 as stated: with no active page, each of navigate, click, type_text,
\* press_key, scroll and get_text_content returns "Browser not active"
\* without faulting, performs no page operation and leaves the session state
\* unchanged.
C8_Claim ==
  \A c \in Recorded : (c.op \in PageOps /\ ~c.pre.page) => NotActive(c)

\* C8 amended: with no active page, each of click, type_text, press_key,
\* scroll and get_text_content does so; navigate does not: it calls start()
\* first and never returns "Browser not active".  It raises what start()
\* raises, returns an "Error navigating" string when start() left no page,
\* and otherwise goes to the page start() created.
C8_NotActive ==
  \A c \in Recorded :
    (c.op \in PageOps /\ ~c.pre.page) =>
      IF c.op # "navigate" THEN NotActive(c)
      ELSE /\ c.ret # "Browser not active"
           /\ (c.raised => c.ops = <<>> /\ ~c.post.page)
           /\ (~c.raised /\ ~c.post.page =>
                 c.ret = "Error navigating" /\ c.ops = <<>> /\ c.post = c.pre)
           /\ (~c.raised /\ c.post.page =>
                 c.ops = <<"goto">> /\ c.post # c.pre)

\* C8's case: the agent asked a stopped manager for the page text.
C8_Witness ==
  /\ last.op = "get_text_content"
  /\ last.elem > 0
  /\ last.pre = BrowserInit
  /\ last.ret = "Browser not active"

\* C9 as stated: without a screenshot the invocation returns an error with
\* is_done = true, calls neither the model nor the browser and leaves the
\* history; in every other invocation is_done = true is returned exactly
\* when an answer or done element was reached.
C9_Claim ==
  Returned =>
    IF ~inv.shot
      THEN /\ ret = Ret(ErrNoScreenshot, TRUE)
           /\ inv.resp = NoResp
           /\ calls = <<>>
           /\ history = hist0
      ELSE ret.is_done = (inv.reached > 0)

\* C10 as stated: a start() that returns without raising leaves a page, and
\* stop() ends with playwright, browser, context and page all None.
C10_Claim ==
  /\ (last.op = "start" /\ ~last.raised) => last.post.page
  /\ last.op = "stop" => last.post = BrowserInit

====
